---- MODULE Spec2Model ----
(***************************************************************************)
(* The archive layer of the FS service, src/core/hle/service/fs/archive.cpp *)
(* The factory registry (id_code_map), the archive handle table            *)
(* (handle_map, next_handle), the archive level API and the File and       *)
(* Directory session objects created from an archive.                      *)
(***************************************************************************)
EXTENDS Integers, Sequences, FiniteSets, TLC

\* ------------------------------------------------------------------ bounds

\* Number of values of ArchiveHandle (2^64 in the program, narrowed here so
\* that the wraparound of next_handle is reached): the counter is unsigned
\* and is taken modulo this number.
HandleSpace == 4

\* Largest number of archives the callers keep open at the same time.
MaxLive == 2

\* Largest number of session objects (File and Directory) the callers create.
MaxSessions == 2

\* Largest number of endpoints the callers link to one File session.
MaxLinks == 1

Handles == 0 .. (HandleSpace - 1)

\* ----------------------------------------------------------- result codes

RESULT_SUCCESS == "RESULT_SUCCESS"

ERROR_NOT_FOUND == "ERROR_NOT_FOUND"

ERR_INVALID_ARCHIVE_HANDLE == "ERR_INVALID_ARCHIVE_HANDLE"

UnimplementedFunction == "UnimplementedFunction"

\* Opaque, backend specific failures (two of them, so that forwarding one
\* unchanged differs from answering with a fixed error).
BackendErrors == {"ERR_BACKEND_A", "ERR_BACKEND_B"}

BackendResults == {RESULT_SUCCESS} \cup BackendErrors

\* The null ArchiveBackend pointer: no object lives at address 0.
nullptr == [id_code |-> "", path |-> "", obj |-> 0]

NoVal == 0 - 1

\* What a function that answers with a bool says, as recorded among the
\* calls.
HostAnswer(ok) == IF ok THEN "true" ELSE "false"

\* ------------------------------------------------------------- id codes

\* The order in which RegisterArchiveTypes registers the factories; the
\* second component tells whether the registration is conditional on the
\* factory's Initialize().
RegistrationOrder ==
    << <<"SDMC", TRUE>>, <<"SDMCWriteOnly", TRUE>>, <<"SaveData", FALSE>>,
       <<"OtherSaveDataPermitted", FALSE>>, <<"OtherSaveDataGeneral", FALSE>>,
       <<"ExtSaveData", TRUE>>, <<"SharedExtSaveData", TRUE>>,
       <<"NCCH", FALSE>>, <<"SystemSaveData", FALSE>>, <<"SelfNCCH", FALSE>> >>

ConditionalIds == {"SDMC", "SDMCWriteOnly", "ExtSaveData", "SharedExtSaveData"}

KnownIds == {RegistrationOrder[i][1] : i \in 1 .. Len(RegistrationOrder)}

\* An ArchiveIdCode value for which no factory is ever constructed.
UnknownId == "0x00000000"

\* Outcomes of the four Initialize() calls that the model draws.
InitOutcomes == {{}, {"SDMC"}, ConditionalIds}

\* Id codes the callers ask for: registered always, registered when its
\* Initialize() succeeded, never registered.
RequestIds == {"SaveData", "SDMC", UnknownId}

ArchivePaths == {"/"}

FilePaths == {"/a.bin"}

\* Sizes of the files the backends hold, and the offsets and lengths the
\* callers pass.
FileSizes == {1}

Offsets == {0, 1}

Lengths == {1}

\* What the backend calls of the handle scoped operations answer.
OpResults == {RESULT_SUCCESS, "ERR_BACKEND_A"}

\* ------------------------------------------------------------------ state

VARIABLES
    id_code_map,    \* ArchiveIdCode -> factory (the registered archive types)
    handle_map,     \* ArchiveHandle -> ArchiveBackend owned by the entry
    next_handle,    \* the allocator's counter
    files,          \* the File sessions created so far
    dirs,           \* the Directory sessions created so far
    fatal,          \* an ASSERT failed: the process is gone
    last,           \* the last call: its name, arguments, result, backend calls
    watch,          \* history: one returned handle value, the counter
                    \* increments made since it was returned, and its next return
    contexts        \* the dispatch contexts inside OpenArchive: where each
                    \* stands and what it holds

vars ==
    << id_code_map, handle_map, next_handle, files, dirs, fatal, last, watch,
       contexts >>

\* h: the watched value (NoVal: none); age: the increments of next_handle since
\* h was returned; reinit: ArchiveInit ran since; seen: 1 while waiting for the
\* next return of h, 2 once h was returned again (the record is then final);
\* busy: h was a key of the table when it was returned again.
NoWatch == [h |-> NoVal, age |-> 0, reinit |-> FALSE, seen |-> 0, busy |-> FALSE]

\* The record of a call: its name, its arguments, its result code, the value
\* it returns with the code, the backend and factory calls it made, and (for
\* OpenArchive) how many live values the allocation loop stepped over.
CallP(op, args, code, val, calls, probed) ==
    [op |-> op, args |-> args, code |-> code, val |-> val, calls |-> calls,
     probed |-> probed]

Call(op, args, code, val, calls) == CallP(op, args, code, val, calls, 0)

\* The dispatch contexts that may be inside OpenArchive at the same time.
Contexts == {"ctx1", "ctx2"}

\* A context outside OpenArchive: pc is the statement it stands before, res
\* the backend it opened and still holds, ret the handle it returned last.
Idle == [pc |-> "idle", res |-> nullptr, ret |-> NoVal]

\* Static storage: both maps empty, next_handle zero initialised.
Init ==
    /\ id_code_map = << >>
    /\ handle_map = << >>
    /\ next_handle = 0
    /\ files = << >>
    /\ dirs = << >>
    /\ fatal = FALSE
    /\ last = Call("none", << >>, RESULT_SUCCESS, NoVal, << >>)
    /\ watch = NoWatch
    /\ contexts = [c \in Contexts |-> Idle]

\* ----------------------------------------------------------- the registry

FactoryOf(id_code) == "ArchiveFactory_" \o id_code

\* Variant: the factory is assigned to the id code, registered or not.
RegisterArchiveTypeReplacing(reg, factory, id_code) ==
    IF reg.fatal THEN reg
    ELSE [map |-> (id_code :> factory) @@ reg.map, fatal |-> FALSE]

\* RegisterArchiveType: emplace, then ASSERT that the emplace inserted.
\* reg is [map, fatal]; after a failed ASSERT nothing more happens.
RegisterArchiveType(reg, factory, id_code) ==
    IF reg.fatal THEN reg
    ELSE IF id_code \in DOMAIN reg.map
         THEN [map |-> reg.map, fatal |-> TRUE]
         ELSE [map |-> reg.map @@ (id_code :> factory), fatal |-> FALSE]

RECURSIVE RegisterFrom(_, _, _)
RegisterFrom(i, reg, init_ok) ==
    IF i > Len(RegistrationOrder) THEN reg
    ELSE LET id_code == RegistrationOrder[i][1]
             conditional == RegistrationOrder[i][2]
         IN IF conditional /\ id_code \notin init_ok
            THEN RegisterFrom(i + 1, reg, init_ok)
            ELSE RegisterFrom(i + 1,
                              RegisterArchiveType(reg, FactoryOf(id_code), id_code),
                              init_ok)

\* RegisterArchiveTypes with the Initialize() calls of init_ok succeeding.
RegisterArchiveTypes(init_ok) ==
    RegisterFrom(1, [map |-> id_code_map, fatal |-> FALSE], init_ok)

ArchiveInit(init_ok) ==
    /\ ~fatal
    /\ next_handle' = 1
    /\ LET reg == RegisterArchiveTypes(init_ok)
       IN /\ id_code_map' = reg.map
          /\ fatal' = reg.fatal
          /\ last' = Call("ArchiveInit", << >>,
                          IF reg.fatal THEN "ASSERT" ELSE RESULT_SUCCESS,
                          NoVal, << >>)
    /\ watch' = IF watch.seen = 1 THEN [watch EXCEPT !.reinit = TRUE] ELSE watch
    /\ UNCHANGED << handle_map, files, dirs, contexts >>

\* RegisterArchiveType called on its own, as the public function it is.
RegisterArchiveTypeCall(factory, id_code) ==
    /\ ~fatal
    /\ LET reg == RegisterArchiveType([map |-> id_code_map, fatal |-> FALSE],
                                      factory, id_code)
       IN /\ id_code_map' = reg.map
          /\ fatal' = reg.fatal
          /\ last' = Call("RegisterArchiveType", <<factory, id_code>>,
                          IF reg.fatal THEN "ASSERT" ELSE RESULT_SUCCESS,
                          NoVal, << >>)
    /\ UNCHANGED << handle_map, next_handle, files, dirs, watch, contexts >>

UnregisterArchiveTypes ==
    /\ ~fatal
    /\ id_code_map' = << >>
    /\ last' = Call("UnregisterArchiveTypes", << >>, RESULT_SUCCESS, NoVal, << >>)
    /\ UNCHANGED << handle_map, next_handle, files, dirs, fatal, watch, contexts >>

ArchiveShutdown ==
    /\ ~fatal
    /\ handle_map' = << >>
    /\ id_code_map' = << >>
    /\ last' = Call("ArchiveShutdown", << >>, RESULT_SUCCESS, NoVal, << >>)
    /\ UNCHANGED << next_handle, files, dirs, fatal, watch, contexts >>

\* ------------------------------------------------------- the handle table

\* Variant: a lookup that falls back on an entry of the table when the key
\* is missing (lower_bound in place of find).
GetArchiveNearest(handle) ==
    IF handle \in DOMAIN handle_map THEN handle_map[handle]
    ELSE IF DOMAIN handle_map = {} THEN nullptr
    ELSE handle_map[CHOOSE h \in DOMAIN handle_map : TRUE]

GetArchive(handle) ==
    IF handle \in DOMAIN handle_map THEN handle_map[handle] ELSE nullptr

\* Variant: the allocation loop left out.
NoProbe(h) == h

\* while (handle_map.count(next_handle) != 0) ++next_handle;
\* (terminates only when some handle value is not a key)
RECURSIVE ProbeFrom(_)
ProbeFrom(h) ==
    IF h \in DOMAIN handle_map THEN ProbeFrom((h + 1) % HandleSpace) ELSE h

\* Addresses of the ArchiveBackend objects owned by the table.
LiveObjects == {handle_map[h].obj : h \in DOMAIN handle_map}

\* The new object lives where no live object does.
FreshObject == CHOOSE o \in 1 .. (MaxLive + 1) : o \notin LiveObjects

\* Variant: clear() in place of erase(handle).
EraseAllHandles(handle) == << >>

EraseHandle(handle) ==
    [h \in DOMAIN handle_map \ {handle} |-> handle_map[h]]

\* The watch after an OpenArchive that returned h, having stepped over
\* probed live values; watch_it: take h under watch if nothing is watched.
Capped(n) == IF n > HandleSpace THEN HandleSpace ELSE n

Watched(h, probed, watch_it) ==
    IF watch.seen = 0
    THEN IF watch_it THEN [NoWatch EXCEPT !.h = h, !.seen = 1] ELSE watch
    ELSE IF watch.seen = 2 THEN watch
    ELSE IF h = watch.h
    THEN [watch EXCEPT !.age = Capped(watch.age + probed), !.seen = 2,
                       !.busy = (h \in DOMAIN handle_map)]
    ELSE [watch EXCEPT !.age = Capped(watch.age + probed + 1)]

\* Variant: the handle value is reserved before the factory's Open is
\* called, and is not given back when Open fails.
OpenArchiveReservingFirst(id_code, archive_path, open_res, watch_it) ==
    /\ ~fatal
    /\ IF id_code \notin DOMAIN id_code_map
       THEN /\ last' = Call("OpenArchive", <<id_code, archive_path>>,
                            ERROR_NOT_FOUND, NoVal, << >>)
            /\ UNCHANGED << handle_map, next_handle, watch >>
       ELSE /\ DOMAIN handle_map # Handles
            /\ LET h == ProbeFrom(next_handle)
                   steps == ((h - next_handle) % HandleSpace) + 1
                   res == [id_code |-> id_code, path |-> archive_path,
                           obj |-> FreshObject]
                   calls == << <<"Open", id_code_map[id_code], open_res>> >>
               IN /\ next_handle' = (h + 1) % HandleSpace
                  /\ IF open_res # RESULT_SUCCESS
                     THEN /\ last' = Call("OpenArchive", <<id_code, archive_path>>,
                                          open_res, NoVal, calls)
                          /\ UNCHANGED << handle_map, watch >>
                     ELSE /\ Cardinality(DOMAIN handle_map) < MaxLive
                          /\ handle_map' = handle_map @@ (h :> res)
                          /\ last' = CallP("OpenArchive", <<id_code, archive_path>>,
                                           RESULT_SUCCESS, h, calls, steps - 1)
                          /\ watch' = Watched(h, steps - 1, watch_it)
    /\ UNCHANGED << id_code_map, files, dirs, fatal, contexts >>

\* The backend an archive type and path were opened with before, if a live
\* entry holds one, else a new one.
SharedOrFreshObject(id_code, archive_path) ==
    LET same == {h \in DOMAIN handle_map :
                    /\ handle_map[h].id_code = id_code
                    /\ handle_map[h].path = archive_path}
    IN IF same = {} THEN FreshObject
       ELSE handle_map[CHOOSE h \in same : TRUE].obj

\* Variant: an archive that is open already is not opened again, the new
\* handle is bound to the backend of the live entry.
OpenArchiveSharingBackend(id_code, archive_path, open_res, watch_it) ==
    /\ ~fatal
    /\ IF id_code \notin DOMAIN id_code_map
       THEN /\ last' = Call("OpenArchive", <<id_code, archive_path>>,
                            ERROR_NOT_FOUND, NoVal, << >>)
            /\ UNCHANGED << handle_map, next_handle, watch >>
       ELSE IF open_res # RESULT_SUCCESS
       THEN /\ last' = Call("OpenArchive", <<id_code, archive_path>>,
                            open_res, NoVal,
                            << <<"Open", id_code_map[id_code], open_res>> >>)
            /\ UNCHANGED << handle_map, next_handle, watch >>
       ELSE /\ DOMAIN handle_map # Handles
            /\ Cardinality(DOMAIN handle_map) < MaxLive
            /\ LET h == ProbeFrom(next_handle)
                   steps == ((h - next_handle) % HandleSpace) + 1
                   res == [id_code |-> id_code, path |-> archive_path,
                           obj |-> SharedOrFreshObject(id_code, archive_path)]
               IN \* emplace: an existing key keeps its entry
                  /\ handle_map' = handle_map @@ (h :> res)
                  /\ next_handle' = (h + 1) % HandleSpace
                  /\ last' = CallP("OpenArchive", <<id_code, archive_path>>,
                                   RESULT_SUCCESS, h,
                                   << <<"Open", id_code_map[id_code], open_res>> >>,
                                   steps - 1)
                  /\ watch' = Watched(h, steps - 1, watch_it)
    /\ UNCHANGED << id_code_map, files, dirs, fatal, contexts >>

OpenArchive(id_code, archive_path, open_res, watch_it) ==
    /\ ~fatal
    /\ IF id_code \notin DOMAIN id_code_map
       THEN /\ last' = Call("OpenArchive", <<id_code, archive_path>>,
                            ERROR_NOT_FOUND, NoVal, << >>)
            /\ UNCHANGED << handle_map, next_handle, watch >>
       ELSE IF open_res # RESULT_SUCCESS
       THEN /\ last' = Call("OpenArchive", <<id_code, archive_path>>,
                            open_res, NoVal,
                            << <<"Open", id_code_map[id_code], open_res>> >>)
            /\ UNCHANGED << handle_map, next_handle, watch >>
       ELSE /\ DOMAIN handle_map # Handles
            /\ Cardinality(DOMAIN handle_map) < MaxLive
            /\ LET h == ProbeFrom(next_handle)
                   steps == ((h - next_handle) % HandleSpace) + 1
                   res == [id_code |-> id_code, path |-> archive_path,
                           obj |-> FreshObject]
               IN \* emplace: an existing key keeps its entry
                  /\ handle_map' = handle_map @@ (h :> res)
                  /\ next_handle' = (h + 1) % HandleSpace
                  /\ last' = CallP("OpenArchive", <<id_code, archive_path>>,
                                   RESULT_SUCCESS, h,
                                   << <<"Open", id_code_map[id_code], open_res>> >>,
                                   steps - 1)
                  /\ watch' = Watched(h, steps - 1, watch_it)
    /\ UNCHANGED << id_code_map, files, dirs, fatal, contexts >>

\* Variant: the closed handle value is handed to the allocator for reuse.
CloseArchiveReusing(handle) ==
    /\ ~fatal
    /\ IF handle \notin DOMAIN handle_map
       THEN /\ last' = Call("CloseArchive", <<handle>>,
                            ERR_INVALID_ARCHIVE_HANDLE, NoVal, << >>)
            /\ UNCHANGED << handle_map, next_handle >>
       ELSE /\ handle_map' = EraseHandle(handle)
            /\ next_handle' = handle
            /\ last' = Call("CloseArchive", <<handle>>, RESULT_SUCCESS, NoVal, << >>)
    /\ UNCHANGED << id_code_map, files, dirs, fatal, watch, contexts >>

\* Variant: the File sessions borrow their backend file from the archive, so
\* that erasing the archive releases the backend files opened from it.
CloseArchiveReleasingFiles(handle) ==
    /\ ~fatal
    /\ IF handle \notin DOMAIN handle_map
       THEN /\ last' = Call("CloseArchive", <<handle>>,
                            ERR_INVALID_ARCHIVE_HANDLE, NoVal, << >>)
            /\ UNCHANGED << handle_map, files >>
       ELSE /\ handle_map' = EraseHandle(handle)
            /\ files' = [s \in 1 .. Len(files) |->
                            IF files[s].from = handle
                            THEN [files[s] EXCEPT !.backend =
                                      [fobj |-> 0, size |-> 0, open |-> FALSE]]
                            ELSE files[s]]
            /\ last' = Call("CloseArchive", <<handle>>, RESULT_SUCCESS, NoVal, << >>)
    /\ UNCHANGED << id_code_map, next_handle, dirs, fatal, watch, contexts >>

CloseArchive(handle) ==
    /\ ~fatal
    /\ IF handle \notin DOMAIN handle_map
       THEN /\ last' = Call("CloseArchive", <<handle>>,
                            ERR_INVALID_ARCHIVE_HANDLE, NoVal, << >>)
            /\ UNCHANGED handle_map
       ELSE /\ handle_map' = EraseHandle(handle)
            /\ last' = Call("CloseArchive", <<handle>>, RESULT_SUCCESS, NoVal, << >>)
    /\ UNCHANGED << id_code_map, next_handle, files, dirs, fatal, watch, contexts >>

\* ------------------------------------------- operations scoped by a handle

\* Variant: archives compared by what they were opened with.
SameArchiveByName(a, b) == a.id_code = b.id_code /\ a.path = b.path

\* src_archive == dest_archive: two ArchiveBackend pointers are equal when
\* they hold the same address.
SameArchive(a, b) == a.obj = b.obj

\* The shape shared by DeleteFileFromArchive, DeleteDirectoryFromArchive,
\* DeleteDirectoryRecursivelyFromArchive, CreateFileInArchive and
\* CreateDirectoryFromArchive: resolve the handle, then return what the
\* backend's function fn returns.
Delegate(op, fn, archive_handle, path, backend_res) ==
    /\ ~fatal
    /\ LET archive == GetArchive(archive_handle)
       IN last' = IF archive = nullptr
                  THEN Call(op, <<archive_handle, path>>,
                            ERR_INVALID_ARCHIVE_HANDLE, NoVal, << >>)
                  ELSE Call(op, <<archive_handle, path>>, backend_res, NoVal,
                            << <<fn, archive.obj, backend_res>> >>)
    /\ UNCHANGED << id_code_map, handle_map, next_handle, files, dirs, fatal, watch, contexts >>

DeleteFileFromArchive(archive_handle, path, backend_res) ==
    Delegate("DeleteFileFromArchive", "DeleteFile", archive_handle, path, backend_res)

DeleteDirectoryFromArchive(archive_handle, path, backend_res) ==
    Delegate("DeleteDirectoryFromArchive", "DeleteDirectory",
             archive_handle, path, backend_res)

DeleteDirectoryRecursivelyFromArchive(archive_handle, path, backend_res) ==
    Delegate("DeleteDirectoryRecursivelyFromArchive", "DeleteDirectoryRecursively",
             archive_handle, path, backend_res)

CreateFileInArchive(archive_handle, path, backend_res) ==
    Delegate("CreateFileInArchive", "CreateFile", archive_handle, path, backend_res)

CreateDirectoryFromArchive(archive_handle, path, backend_res) ==
    Delegate("CreateDirectoryFromArchive", "CreateDirectory",
             archive_handle, path, backend_res)

\* The shape shared by RenameFileBetweenArchives and
\* RenameDirectoryBetweenArchives.
RenameBetweenArchives(op, fn, src_archive_handle, dest_archive_handle, backend_res) ==
    /\ ~fatal
    /\ LET src_archive == GetArchive(src_archive_handle)
           dest_archive == GetArchive(dest_archive_handle)
           args == <<src_archive_handle, dest_archive_handle>>
       IN last' = IF src_archive = nullptr \/ dest_archive = nullptr
                  THEN Call(op, args, ERR_INVALID_ARCHIVE_HANDLE, NoVal, << >>)
                  ELSE IF SameArchive(src_archive, dest_archive)
                  THEN Call(op, args, backend_res, NoVal,
                            << <<fn, src_archive.obj, backend_res>> >>)
                  ELSE Call(op, args, UnimplementedFunction, NoVal, << >>)
    /\ UNCHANGED << id_code_map, handle_map, next_handle, files, dirs, fatal, watch, contexts >>

RenameFileBetweenArchives(src_archive_handle, dest_archive_handle, backend_res) ==
    RenameBetweenArchives("RenameFileBetweenArchives", "RenameFile",
                          src_archive_handle, dest_archive_handle, backend_res)

RenameDirectoryBetweenArchives(src_archive_handle, dest_archive_handle, backend_res) ==
    RenameBetweenArchives("RenameDirectoryBetweenArchives", "RenameDirectory",
                          src_archive_handle, dest_archive_handle, backend_res)

\* archive->GetFreeBytes() cannot fail; free is what the backend answers.
GetFreeBytesInArchive(archive_handle, free) ==
    /\ ~fatal
    /\ LET archive == GetArchive(archive_handle)
       IN last' = IF archive = nullptr
                  THEN Call("GetFreeBytesInArchive", <<archive_handle>>,
                            ERR_INVALID_ARCHIVE_HANDLE, NoVal, << >>)
                  ELSE Call("GetFreeBytesInArchive", <<archive_handle>>,
                            RESULT_SUCCESS, free,
                            << <<"GetFreeBytes", archive.obj, RESULT_SUCCESS>> >>)
    /\ UNCHANGED << id_code_map, handle_map, next_handle, files, dirs, fatal, watch, contexts >>

\* ------------------------------------------------------------ the sessions

\* File::File: the session takes the backend file object over (std::move),
\* keeps the path and starts with priority 0 and with no endpoint connected
\* by OpenLinkFile. from is history, not a member: the handle the session was
\* opened from.
NewFile(backend, path, archive_handle) ==
    [path |-> path, priority |-> 0, backend |-> backend, links |-> 0,
     from |-> archive_handle]

\* Directory::Directory.
NewDirectory(backend, path) == [path |-> path, backend |-> backend]

\* The FileBackend object a successful ArchiveBackend::OpenFile creates.
FileBackendObject(fobj, size) == [fobj |-> fobj, size |-> size, open |-> TRUE]

\* The DirectoryBackend object a successful ArchiveBackend::OpenDirectory
\* creates: left entries remain to be enumerated.
DirectoryBackendObject(dobj, left) == [dobj |-> dobj, left |-> left, open |-> TRUE]

\* Variant: the File takes the archive over, the table gives its entry up.
OpenFileTakingArchive(archive_handle, path, backend_res, size) ==
    /\ ~fatal
    /\ LET archive == GetArchive(archive_handle)
           args == <<archive_handle, path>>
       IN IF archive = nullptr
          THEN /\ last' = Call("OpenFileFromArchive", args,
                               ERR_INVALID_ARCHIVE_HANDLE, NoVal, << >>)
               /\ UNCHANGED << files, handle_map >>
          ELSE IF backend_res # RESULT_SUCCESS
          THEN /\ last' = Call("OpenFileFromArchive", args, backend_res, NoVal,
                               << <<"OpenFile", archive.obj, backend_res>> >>)
               /\ UNCHANGED << files, handle_map >>
          ELSE /\ Len(files) + Len(dirs) < MaxSessions
               /\ files' = Append(files,
                      NewFile(FileBackendObject(Len(files) + 1, size), path,
                              archive_handle))
               /\ handle_map' = EraseHandle(archive_handle)
               /\ last' = Call("OpenFileFromArchive", args, RESULT_SUCCESS,
                               Len(files) + 1,
                               << <<"OpenFile", archive.obj, backend_res>> >>)
    /\ UNCHANGED << id_code_map, next_handle, dirs, fatal, watch, contexts >>

OpenFileFromArchive(archive_handle, path, backend_res, size) ==
    /\ ~fatal
    /\ LET archive == GetArchive(archive_handle)
           args == <<archive_handle, path>>
       IN IF archive = nullptr
          THEN /\ last' = Call("OpenFileFromArchive", args,
                               ERR_INVALID_ARCHIVE_HANDLE, NoVal, << >>)
               /\ UNCHANGED files
          ELSE IF backend_res # RESULT_SUCCESS
          THEN /\ last' = Call("OpenFileFromArchive", args, backend_res, NoVal,
                               << <<"OpenFile", archive.obj, backend_res>> >>)
               /\ UNCHANGED files
          ELSE /\ Len(files) + Len(dirs) < MaxSessions
               /\ files' = Append(files,
                      NewFile(FileBackendObject(Len(files) + 1, size), path,
                              archive_handle))
               /\ last' = Call("OpenFileFromArchive", args, RESULT_SUCCESS,
                               Len(files) + 1,
                               << <<"OpenFile", archive.obj, backend_res>> >>)
    /\ UNCHANGED << id_code_map, handle_map, next_handle, dirs, fatal, watch, contexts >>

\* Variant: a path that a Directory session has open is not opened again,
\* the new session is given the backend directory of that session.
OpenDirectoryFromArchiveSharing(archive_handle, path, backend_res, left) ==
    /\ ~fatal
    /\ LET archive == GetArchive(archive_handle)
           args == <<archive_handle, path>>
           opened == {d \in 1 .. Len(dirs) : dirs[d].path = path}
       IN IF archive = nullptr
          THEN /\ last' = Call("OpenDirectoryFromArchive", args,
                               ERR_INVALID_ARCHIVE_HANDLE, NoVal, << >>)
               /\ UNCHANGED dirs
          ELSE IF backend_res # RESULT_SUCCESS
          THEN /\ last' = Call("OpenDirectoryFromArchive", args, backend_res, NoVal,
                               << <<"OpenDirectory", archive.obj, backend_res>> >>)
               /\ UNCHANGED dirs
          ELSE /\ Len(files) + Len(dirs) < MaxSessions
               /\ dirs' = Append(dirs,
                      NewDirectory(IF opened = {}
                                   THEN DirectoryBackendObject(Len(dirs) + 1, left)
                                   ELSE dirs[CHOOSE d \in opened : TRUE].backend,
                                   path))
               /\ last' = Call("OpenDirectoryFromArchive", args, RESULT_SUCCESS,
                               Len(dirs) + 1,
                               << <<"OpenDirectory", archive.obj, backend_res>> >>)
    /\ UNCHANGED << id_code_map, handle_map, next_handle, files, fatal, watch, contexts >>

OpenDirectoryFromArchive(archive_handle, path, backend_res, left) ==
    /\ ~fatal
    /\ LET archive == GetArchive(archive_handle)
           args == <<archive_handle, path>>
       IN IF archive = nullptr
          THEN /\ last' = Call("OpenDirectoryFromArchive", args,
                               ERR_INVALID_ARCHIVE_HANDLE, NoVal, << >>)
               /\ UNCHANGED dirs
          ELSE IF backend_res # RESULT_SUCCESS
          THEN /\ last' = Call("OpenDirectoryFromArchive", args, backend_res, NoVal,
                               << <<"OpenDirectory", archive.obj, backend_res>> >>)
               /\ UNCHANGED dirs
          ELSE /\ Len(files) + Len(dirs) < MaxSessions
               /\ dirs' = Append(dirs,
                      NewDirectory(DirectoryBackendObject(Len(dirs) + 1, left), path))
               /\ last' = Call("OpenDirectoryFromArchive", args, RESULT_SUCCESS,
                               Len(dirs) + 1,
                               << <<"OpenDirectory", archive.obj, backend_res>> >>)
    /\ UNCHANGED << id_code_map, handle_map, next_handle, files, fatal, watch, contexts >>

\* ------------------------------------------------- lookups in the registry

FormatArchive(id_code, path, backend_res) ==
    /\ ~fatal
    /\ last' = IF id_code \notin DOMAIN id_code_map
               THEN Call("FormatArchive", <<id_code, path>>,
                         UnimplementedFunction, NoVal, << >>)
               ELSE Call("FormatArchive", <<id_code, path>>, backend_res, NoVal,
                         << <<"Format", id_code_map[id_code], backend_res>> >>)
    /\ UNCHANGED << id_code_map, handle_map, next_handle, files, dirs, fatal, watch, contexts >>

\* info is the ArchiveFormatInfo the factory answers with on success.
GetArchiveFormatInfo(id_code, archive_path, backend_res, info) ==
    /\ ~fatal
    /\ last' = IF id_code \notin DOMAIN id_code_map
               THEN Call("GetArchiveFormatInfo", <<id_code, archive_path>>,
                         UnimplementedFunction, NoVal, << >>)
               ELSE Call("GetArchiveFormatInfo", <<id_code, archive_path>>,
                         backend_res,
                         IF backend_res = RESULT_SUCCESS THEN info ELSE NoVal,
                         << <<"GetFormatInfo", id_code_map[id_code], backend_res>> >>)
    /\ UNCHANGED << id_code_map, handle_map, next_handle, files, dirs, fatal, watch, contexts >>

\* ------------------------------------------------- the File command set

\* FileBackend::GetSize.
BackendGetSize(backend) == backend.size

\* The byte count a successful FileBackend::Read answers with: the bytes
\* the file holds from offset on, at most length.
BackendRead(backend, offset, length) ==
    IF offset >= backend.size THEN 0
    ELSE IF offset + length > backend.size THEN backend.size - offset
    ELSE length

\* The backend file after a successful FileBackend::Write of length bytes.
BackendWrite(backend, offset, length) ==
    [backend EXCEPT !.size = IF offset + length > backend.size
                              THEN offset + length ELSE backend.size]

\* The calls File::Read makes before the backend Read: GetSize for the bounds
\* test, and once more for the error it logs where the test fails.
ReadBoundsCalls(file, offset, length) ==
    LET size == <<"GetSize", file.backend.fobj, RESULT_SUCCESS>>
    IN IF offset + length > BackendGetSize(file.backend)
       THEN <<size, size>> ELSE <<size>>

\* Variant: the length is cut down to what the file holds from offset on
\* before the backend is asked.
ReadReplyClamping(file, offset, length, backend_res) ==
    LET size == BackendGetSize(file.backend)
        clamped == IF offset >= size THEN 0
                   ELSE IF offset + length > size THEN size - offset ELSE length
        asked == ReadBoundsCalls(file, offset, length)
        read == <<"Read", file.backend.fobj, backend_res, offset, clamped>>
        n == BackendRead(file.backend, offset, clamped)
    IN IF backend_res # RESULT_SUCCESS
       THEN [code |-> backend_res, val |-> 0, calls |-> Append(asked, read)]
       ELSE [code |-> RESULT_SUCCESS, val |-> n,
             calls |-> asked \o
                       <<read, <<"buffer.Write", "buffer", RESULT_SUCCESS, 0, n>> >>]

\* What File::Read puts in its reply for session file: the result word and
\* the byte count, with the calls made: the backend Read with the offset and
\* the length it is given, and on success the write of the bytes read to the
\* caller's mapped buffer (from its offset 0).
ReadReply(file, offset, length, backend_res) ==
    LET asked == ReadBoundsCalls(file, offset, length)
        read == <<"Read", file.backend.fobj, backend_res, offset, length>>
        n == BackendRead(file.backend, offset, length)
    IN IF backend_res # RESULT_SUCCESS
       THEN [code |-> backend_res, val |-> 0, calls |-> Append(asked, read)]
       ELSE [code |-> RESULT_SUCCESS, val |-> n,
             calls |-> asked \o
                       <<read, <<"buffer.Write", "buffer", RESULT_SUCCESS, 0, n>> >>]

\* What File::Write puts in its reply.
WriteReply(file, offset, length, backend_res) ==
    LET calls == << <<"Write", file.backend.fobj, backend_res>> >>
    IN IF backend_res # RESULT_SUCCESS
       THEN [code |-> backend_res, val |-> 0, calls |-> calls]
       ELSE [code |-> RESULT_SUCCESS, val |-> length, calls |-> calls]

\* What File::GetSize puts in its reply.
GetSizeReply(file) ==
    [code |-> RESULT_SUCCESS, val |-> BackendGetSize(file.backend),
     calls |-> << <<"GetSize", file.backend.fobj, RESULT_SUCCESS>> >>]

File_Read(s, offset, length, backend_res) ==
    /\ ~fatal
    /\ s \in 1 .. Len(files)
    /\ LET reply == ReadReply(files[s], offset, length, backend_res)
       IN last' = Call("File::Read", <<s, offset, length>>,
                       reply.code, reply.val, reply.calls)
    /\ UNCHANGED << id_code_map, handle_map, next_handle, files, dirs, fatal, watch, contexts >>

File_Write(s, offset, length, backend_res) ==
    /\ ~fatal
    /\ s \in 1 .. Len(files)
    /\ LET reply == WriteReply(files[s], offset, length, backend_res)
       IN /\ last' = Call("File::Write", <<s>>,
                          reply.code, reply.val, reply.calls)
          /\ files' = IF backend_res = RESULT_SUCCESS
                      THEN [files EXCEPT ![s].backend =
                                BackendWrite(files[s].backend, offset, length)]
                      ELSE files
    /\ UNCHANGED << id_code_map, handle_map, next_handle, dirs, fatal, watch, contexts >>

File_GetSize(s) ==
    /\ ~fatal
    /\ s \in 1 .. Len(files)
    /\ LET reply == GetSizeReply(files[s])
       IN last' = Call("File::GetSize", <<s>>, reply.code, reply.val, reply.calls)
    /\ UNCHANGED << id_code_map, handle_map, next_handle, files, dirs, fatal, watch, contexts >>

\* The backend file after FileBackend::SetSize answered ok.
BackendSetSize(backend, size, ok) ==
    IF ok THEN [backend EXCEPT !.size = size] ELSE backend

\* The backend file after FileBackend::Close answered ok.
BackendClose(backend, ok) ==
    IF ok THEN [backend EXCEPT !.open = FALSE] ELSE backend

\* ok: what FileBackend::SetSize answers; the answer is dropped.
File_SetSize(s, size, ok) ==
    /\ ~fatal
    /\ s \in 1 .. Len(files)
    /\ files' = [files EXCEPT ![s].backend = BackendSetSize(files[s].backend, size, ok)]
    /\ last' = Call("File::SetSize", <<s>>, RESULT_SUCCESS, NoVal,
                    << <<"SetSize", files[s].backend.fobj, HostAnswer(ok)>> >>)
    /\ UNCHANGED << id_code_map, handle_map, next_handle, dirs, fatal, watch, contexts >>

\* ok: what FileBackend::Close answers; the answer is dropped. The session
\* keeps its backend member.
File_Close(s, ok) ==
    /\ ~fatal
    /\ s \in 1 .. Len(files)
    /\ files' = [files EXCEPT ![s].backend = BackendClose(files[s].backend, ok)]
    /\ last' = Call("File::Close", <<s>>, RESULT_SUCCESS, NoVal,
                    << <<"Close", files[s].backend.fobj, HostAnswer(ok)>> >>)
    /\ UNCHANGED << id_code_map, handle_map, next_handle, dirs, fatal, watch, contexts >>

File_Flush(s) ==
    /\ ~fatal
    /\ s \in 1 .. Len(files)
    /\ last' = Call("File::Flush", <<s>>, RESULT_SUCCESS, NoVal,
                    << <<"Flush", files[s].backend.fobj, RESULT_SUCCESS>> >>)
    /\ UNCHANGED << id_code_map, handle_map, next_handle, files, dirs, fatal, watch, contexts >>

\* Variant: the priority is kept in a byte.
File_SetPriorityNarrowed(s, p) ==
    /\ ~fatal
    /\ s \in 1 .. Len(files)
    /\ files' = [files EXCEPT ![s].priority = p % 256]
    /\ last' = Call("File::SetPriority", <<s, p>>, RESULT_SUCCESS, NoVal, << >>)
    /\ UNCHANGED << id_code_map, handle_map, next_handle, dirs, fatal, watch, contexts >>

\* p is the u32 the command carries.
File_SetPriority(s, p) ==
    /\ ~fatal
    /\ s \in 1 .. Len(files)
    /\ files' = [files EXCEPT ![s].priority = p]
    /\ last' = Call("File::SetPriority", <<s, p>>, RESULT_SUCCESS, NoVal, << >>)
    /\ UNCHANGED << id_code_map, handle_map, next_handle, dirs, fatal, watch, contexts >>

File_GetPriority(s) ==
    /\ ~fatal
    /\ s \in 1 .. Len(files)
    /\ last' = Call("File::GetPriority", <<s>>, RESULT_SUCCESS,
                    files[s].priority, << >>)
    /\ UNCHANGED << id_code_map, handle_map, next_handle, files, dirs, fatal, watch, contexts >>

\* Variant: the new endpoint is connected to a copy of the session.
File_OpenLinkFileCopying(s) ==
    /\ ~fatal
    /\ s \in 1 .. Len(files)
    /\ files[s].links < MaxLinks
    /\ Len(files) + Len(dirs) < MaxSessions
    /\ files' = Append(files, [files[s] EXCEPT !.links = 1])
    /\ last' = Call("File::OpenLinkFile", <<s>>, RESULT_SUCCESS, 1, << >>)
    /\ UNCHANGED << id_code_map, handle_map, next_handle, dirs, fatal, watch, contexts >>

\* CreateSessionPair and ClientConnected(server session) on this File: one
\* more endpoint is connected to the session, and the command answers with
\* the client end of it (here: its number among the linked endpoints).
File_OpenLinkFile(s) ==
    /\ ~fatal
    /\ s \in 1 .. Len(files)
    /\ files[s].links < MaxLinks
    /\ files' = [files EXCEPT ![s].links = @ + 1]
    /\ last' = Call("File::OpenLinkFile", <<s>>, RESULT_SUCCESS,
                    files[s].links + 1, << >>)
    /\ UNCHANGED << id_code_map, handle_map, next_handle, dirs, fatal, watch, contexts >>

\* ------------------------------------------ the Directory command set

\* The values of cmd_buff[0] the Directory session is sent: the four of
\* DirectoryCommand, and a u32 that is none of them.
DirectoryCommands == {"Dummy1", "Control", "Read", "Close", "0x00000000"}

\* The number of entries DirectoryBackend::Read answers with: those left to
\* enumerate, at most count.
BackendDirRead(backend, count) ==
    IF count > backend.left THEN backend.left ELSE count

\* Variant: the default case has no return and runs on to the success word.
Directory_HandleSyncRequestFallingThrough(d, cmd, count) ==
    /\ ~fatal
    /\ d \in 1 .. Len(dirs)
    /\ LET backend == dirs[d].backend
           read == BackendDirRead(backend, count)
       IN CASE cmd = "Read" ->
                 /\ dirs' = [dirs EXCEPT ![d].backend.left = @ - read]
                 /\ last' = Call("Directory::HandleSyncRequest", <<d, cmd>>,
                                 RESULT_SUCCESS, read,
                                 << <<"Read", backend.dobj, RESULT_SUCCESS>> >>)
            [] cmd = "Close" ->
                 /\ dirs' = [dirs EXCEPT ![d].backend.open = FALSE]
                 /\ last' = Call("Directory::HandleSyncRequest", <<d, cmd>>,
                                 RESULT_SUCCESS, NoVal,
                                 << <<"Close", backend.dobj, RESULT_SUCCESS>> >>)
            [] OTHER ->
                 /\ dirs' = dirs
                 /\ last' = Call("Directory::HandleSyncRequest", <<d, cmd>>,
                                 RESULT_SUCCESS, NoVal, << >>)
    /\ UNCHANGED << id_code_map, handle_map, next_handle, files, fatal, watch, contexts >>

\* cmd is cmd_buff[0], count the cmd_buff[1] of a Read. The record's code is
\* the cmd_buff[1] of the reply, its val the cmd_buff[2] a Read writes.
Directory_HandleSyncRequest(d, cmd, count) ==
    /\ ~fatal
    /\ d \in 1 .. Len(dirs)
    /\ LET backend == dirs[d].backend
           read == BackendDirRead(backend, count)
       IN CASE cmd = "Read" ->
                 /\ dirs' = [dirs EXCEPT ![d].backend.left = @ - read]
                 /\ last' = Call("Directory::HandleSyncRequest", <<d, cmd>>,
                                 RESULT_SUCCESS, read,
                                 << <<"Read", backend.dobj, RESULT_SUCCESS>> >>)
            [] cmd = "Close" ->
                 /\ dirs' = [dirs EXCEPT ![d].backend.open = FALSE]
                 /\ last' = Call("Directory::HandleSyncRequest", <<d, cmd>>,
                                 RESULT_SUCCESS, NoVal,
                                 << <<"Close", backend.dobj, RESULT_SUCCESS>> >>)
            [] OTHER ->
                 /\ dirs' = dirs
                 /\ last' = Call("Directory::HandleSyncRequest", <<d, cmd>>,
                                 UnimplementedFunction, NoVal, << >>)
    /\ UNCHANGED << id_code_map, handle_map, next_handle, files, fatal, watch, contexts >>

\* ------------------------------------------- the maintenance operations

\* The result the maintenance operations answer with where the source says
\* ResultCode(-1).
ResultCodeMinusOne == "ResultCode(-1)"

MediaTypes == {"NAND", "SDMC", "GameCard"}

\* The id code CreateExtSaveData looks up for a media type.
ExtSaveDataIdOf(media_type) ==
    IF media_type = "NAND" THEN "SharedExtSaveData" ELSE "ExtSaveData"

\* icon_valid: Memory::IsValidVirtualAddress(icon_buffer); format_res: what
\* the factory's Format answers. The calls made on the factory are recorded
\* in the order the function makes them.
CreateExtSaveData(media_type, icon_valid, format_res) ==
    /\ ~fatal
    /\ LET id_code == ExtSaveDataIdOf(media_type)
           args == <<media_type, icon_valid>>
       IN IF id_code \notin DOMAIN id_code_map
          THEN last' = Call("CreateExtSaveData", args, UnimplementedFunction,
                            NoVal, << >>)
          ELSE LET ext_savedata == id_code_map[id_code]
                   format == <<"Format", ext_savedata, format_res>>
               IN IF format_res # RESULT_SUCCESS
                  THEN last' = Call("CreateExtSaveData", args, format_res,
                                    NoVal, <<format>>)
                  ELSE IF ~icon_valid
                  THEN last' = Call("CreateExtSaveData", args,
                                    ResultCodeMinusOne, NoVal, <<format>>)
                  ELSE last' = Call("CreateExtSaveData", args, RESULT_SUCCESS,
                                    NoVal,
                                    <<format,
                                      <<"WriteIcon", ext_savedata, RESULT_SUCCESS>> >>)
    /\ UNCHANGED << id_code_map, handle_map, next_handle, files, dirs, fatal, watch, contexts >>

\* exists: FileUtil::Exists of the container path; deleted: what
\* FileUtil::DeleteDirRecursively answers for it.
DeleteExtSaveData(media_type, exists, deleted) ==
    /\ ~fatal
    /\ LET args == <<media_type, exists>>
           asked == <<"Exists", "extsavedata_path", HostAnswer(exists)>>
           removed == <<"DeleteDirRecursively", "extsavedata_path",
                        HostAnswer(deleted)>>
       IN IF media_type \notin {"NAND", "SDMC"}
          THEN last' = Call("DeleteExtSaveData", args, ResultCodeMinusOne,
                            NoVal, << >>)
          ELSE IF ~exists
          THEN last' = Call("DeleteExtSaveData", args, RESULT_SUCCESS, NoVal,
                            <<asked>>)
          ELSE last' = Call("DeleteExtSaveData", args,
                            IF deleted THEN RESULT_SUCCESS ELSE ResultCodeMinusOne,
                            NoVal, <<asked, removed>>)
    /\ UNCHANGED << id_code_map, handle_map, next_handle, files, dirs, fatal, watch, contexts >>

\* exists: whether the container path is there (the function does not ask);
\* deleted: what FileUtil::DeleteDirRecursively answers for it.
DeleteSystemSaveData(exists, deleted) ==
    /\ ~fatal
    /\ last' = Call("DeleteSystemSaveData", <<"NAND", exists>>,
                    IF deleted THEN RESULT_SUCCESS ELSE ResultCodeMinusOne,
                    NoVal,
                    << <<"DeleteDirRecursively", "systemsavedata_path",
                         HostAnswer(deleted)>> >>)
    /\ UNCHANGED << id_code_map, handle_map, next_handle, files, dirs, fatal, watch, contexts >>

\* created: what FileUtil::CreateFullPath answers.
CreateSystemSaveData(created) ==
    /\ ~fatal
    /\ last' = Call("CreateSystemSaveData", << >>,
                    IF created THEN RESULT_SUCCESS ELSE ResultCodeMinusOne,
                    NoVal,
                    << <<"CreateFullPath", "systemsavedata_path",
                         HostAnswer(created)>> >>)
    /\ UNCHANGED << id_code_map, handle_map, next_handle, files, dirs, fatal, watch, contexts >>

\* Variant: a missing SelfNCCH factory is created and registered.
RegisterSelfNCCHCreating(app_loader) ==
    /\ ~fatal
    /\ id_code_map' = id_code_map @@ ("SelfNCCH" :> FactoryOf("SelfNCCH"))
    /\ last' = Call("RegisterSelfNCCH", <<app_loader>>, RESULT_SUCCESS, NoVal,
                    << <<"Register", FactoryOf("SelfNCCH"), RESULT_SUCCESS>> >>)
    /\ UNCHANGED << handle_map, next_handle, files, dirs, fatal, watch, contexts >>

\* The function returns nothing: the record's code tells the error it logs
\* when the SelfNCCH factory is not registered.
RegisterSelfNCCH(app_loader) ==
    /\ ~fatal
    /\ last' = IF "SelfNCCH" \notin DOMAIN id_code_map
               THEN Call("RegisterSelfNCCH", <<app_loader>>, "LOG_ERROR", NoVal,
                         << >>)
               ELSE Call("RegisterSelfNCCH", <<app_loader>>, RESULT_SUCCESS, NoVal,
                         << <<"Register", id_code_map["SelfNCCH"], RESULT_SUCCESS>> >>)
    /\ UNCHANGED << id_code_map, handle_map, next_handle, files, dirs, fatal, watch, contexts >>

\* ------------------------------------- OpenArchive, statement by statement

\* The file has no lock: a dispatch context runs the statements of
\* OpenArchive one at a time, and the statements of other contexts may run
\* in between.

HeldObjects == {contexts[c].res.obj : c \in Contexts}

\* The address of the backend a factory's Open creates: one no live and no
\* held backend has.
FreshObjectFor ==
    CHOOSE o \in 1 .. (MaxLive + Cardinality(Contexts) + 1) :
        o \notin LiveObjects \cup HeldObjects

\* id_code_map.find and CASCADE_RESULT(res, itr->second->Open(archive_path)),
\* both succeeding: the context holds res.
OpenArchive_Open(c, id_code, archive_path) ==
    /\ ~fatal
    /\ contexts[c].pc = "idle"
    /\ contexts[c].ret = NoVal
    /\ id_code \in DOMAIN id_code_map
    /\ Cardinality(DOMAIN handle_map) < MaxLive
    /\ contexts' = [contexts EXCEPT ![c] =
           [pc |-> "probe", ret |-> NoVal,
            res |-> [id_code |-> id_code, path |-> archive_path,
                     obj |-> FreshObjectFor]]]
    /\ last' = Call("Open", <<c, id_code, archive_path>>, RESULT_SUCCESS, NoVal,
                    << <<"Open", id_code_map[id_code], RESULT_SUCCESS>> >>)
    /\ UNCHANGED << id_code_map, handle_map, next_handle, files, dirs, fatal, watch >>

\* while (handle_map.count(next_handle) != 0) ++next_handle; one evaluation
\* of the condition, with the body where it holds.
OpenArchive_Probe(c) ==
    /\ ~fatal
    /\ contexts[c].pc = "probe"
    /\ IF next_handle \in DOMAIN handle_map
       THEN /\ next_handle' = (next_handle + 1) % HandleSpace
            /\ UNCHANGED contexts
       ELSE /\ contexts' = [contexts EXCEPT ![c].pc = "emplace"]
            /\ UNCHANGED next_handle
    /\ last' = Call("count", <<c, next_handle>>, RESULT_SUCCESS, NoVal, << >>)
    /\ UNCHANGED << id_code_map, handle_map, files, dirs, fatal, watch >>

\* handle_map.emplace(next_handle, std::move(res)): inserts nothing where the
\* key is there.
OpenArchive_Emplace(c) ==
    /\ ~fatal
    /\ contexts[c].pc = "emplace"
    /\ handle_map' = IF next_handle \in DOMAIN handle_map
                     THEN handle_map
                     ELSE handle_map @@ (next_handle :> contexts[c].res)
    /\ contexts' = [contexts EXCEPT ![c].pc = "return"]
    /\ last' = Call("emplace", <<c, next_handle>>, RESULT_SUCCESS, NoVal, << >>)
    /\ UNCHANGED << id_code_map, next_handle, files, dirs, fatal, watch >>

\* return MakeResult<ArchiveHandle>(next_handle++). The context is out of the
\* function; ret is the handle its caller got, and res stays on record as the
\* backend the call opened.
OpenArchive_Return(c) ==
    /\ ~fatal
    /\ contexts[c].pc = "return"
    /\ next_handle' = (next_handle + 1) % HandleSpace
    /\ contexts' = [contexts EXCEPT ![c].pc = "idle", ![c].ret = next_handle]
    /\ last' = Call("OpenArchive", <<contexts[c].res.id_code, contexts[c].res.path>>,
                    RESULT_SUCCESS, next_handle, << >>)
    /\ UNCHANGED << id_code_map, handle_map, files, dirs, fatal, watch >>

\* CloseArchive by the caller that got the handle: handle_map.erase(handle)
\* is its only statement on the table.
CloseArchive_Erase(c) ==
    /\ ~fatal
    /\ contexts[c].pc = "idle"
    /\ contexts[c].ret # NoVal
    /\ handle_map' = EraseHandle(contexts[c].ret)
    /\ contexts' = [contexts EXCEPT ![c] = Idle]
    /\ last' = Call("CloseArchive", <<contexts[c].ret>>,
                    IF contexts[c].ret \in DOMAIN handle_map
                    THEN RESULT_SUCCESS ELSE ERR_INVALID_ARCHIVE_HANDLE,
                    NoVal, << >>)
    /\ UNCHANGED << id_code_map, next_handle, files, dirs, fatal, watch >>

\* ---------------------------------------------------------- specifications

\* The handle table and its allocator.
TableNext ==
    \/ \E init_ok \in InitOutcomes : ArchiveInit(init_ok)
    \/ UnregisterArchiveTypes
    \/ ArchiveShutdown
    \/ \E id_code \in RequestIds, p \in ArchivePaths, r \in BackendResults :
          OpenArchive(id_code, p, r, FALSE)
    \/ \E handle \in Handles : CloseArchive(handle)

SpecTable == Init /\ [][TableNext]_vars

\* The allocator observed: as TableNext, and a returned handle value may be
\* taken under watch.
CycleNext ==
    \/ ArchiveInit(ConditionalIds)
    \/ UnregisterArchiveTypes
    \/ ArchiveShutdown
    \/ \E r \in OpResults, w \in BOOLEAN : OpenArchive("SaveData", "/", r, w)
    \/ \E handle \in Handles : CloseArchive(handle)

SpecCycle == Init /\ [][CycleNext]_vars

\* The operations scoped by a handle, on live and on dead handles. The
\* backends here refuse to open files and directories (SessionsNext creates
\* the sessions).
OpsNext ==
    \/ ArchiveInit(ConditionalIds)
    \/ ArchiveShutdown
    \/ OpenArchive("SaveData", "/", RESULT_SUCCESS, FALSE)
    \/ \E handle \in Handles : CloseArchive(handle)
    \/ \E h \in Handles, p \in FilePaths, r \in OpResults :
          \/ DeleteFileFromArchive(h, p, r)
          \/ DeleteDirectoryFromArchive(h, p, r)
          \/ DeleteDirectoryRecursivelyFromArchive(h, p, r)
          \/ CreateFileInArchive(h, p, r)
          \/ CreateDirectoryFromArchive(h, p, r)
    \/ \E src \in Handles, dst \in Handles, r \in OpResults :
          \/ RenameFileBetweenArchives(src, dst, r)
          \/ RenameDirectoryBetweenArchives(src, dst, r)
    \/ \E h \in Handles : GetFreeBytesInArchive(h, 1)
    \/ \E h \in Handles, p \in FilePaths :
          \/ OpenFileFromArchive(h, p, "ERR_BACKEND_A", 1)
          \/ OpenDirectoryFromArchive(h, p, "ERR_BACKEND_A", 1)

SpecOps == Init /\ [][OpsNext]_vars

\* The lookups in the registry.
LookupNext ==
    \/ \E init_ok \in SUBSET ConditionalIds : ArchiveInit(init_ok)
    \/ UnregisterArchiveTypes
    \/ \E id_code \in RequestIds \cup {"ExtSaveData"}, p \in ArchivePaths,
          r \in BackendResults :
          \/ OpenArchive(id_code, p, r, FALSE)
          \/ FormatArchive(id_code, p, r)
          \/ GetArchiveFormatInfo(id_code, p, r, 1)

SpecLookup == Init /\ [][LookupNext]_vars

\* The handles the callers of OpenSessionsNext open files and directories
\* from, live or not.
SessionHandles == {1, 2}

\* The handle the callers of SessionsNext open their files from: the first
\* one allocated after ArchiveInit.
FirstHandle == 1

\* File sessions opened from archives, and the archives closed under them.
SessionsNext ==
    \/ ArchiveInit(ConditionalIds)
    \/ OpenArchive("SaveData", "/", RESULT_SUCCESS, FALSE)
    \/ \E handle \in Handles : CloseArchive(handle)
    \/ \E p \in FilePaths, r \in OpResults, size \in FileSizes :
          OpenFileFromArchive(FirstHandle, p, r, size)
    \/ \E s \in 1 .. MaxSessions, o \in Offsets, l \in Lengths, r \in OpResults :
          \/ File_Read(s, o, l, r)
          \/ File_Write(s, o, l, r)
    \/ \E s \in 1 .. MaxSessions : File_GetSize(s)

SpecSessions == Init /\ [][SessionsNext]_vars

\* The creation of File and Directory sessions.
OpenSessionsNext ==
    \/ ArchiveInit(ConditionalIds)
    \/ OpenArchive("SaveData", "/", RESULT_SUCCESS, FALSE)
    \/ \E handle \in Handles : CloseArchive(handle)
    \/ \E h \in SessionHandles, p \in FilePaths, r \in OpResults, size \in FileSizes :
          OpenFileFromArchive(h, p, r, size)
    \/ \E h \in SessionHandles, p \in FilePaths, r \in OpResults :
          OpenDirectoryFromArchive(h, p, r, 1)

SpecOpenSessions == Init /\ [][OpenSessionsNext]_vars

\* The create and delete maintenance operations, on registries with and
\* without the extended-data factories.
MaintenanceNext ==
    \/ \E init_ok \in SUBSET ConditionalIds : ArchiveInit(init_ok)
    \/ UnregisterArchiveTypes
    \/ \E m \in MediaTypes, icon_valid \in BOOLEAN, r \in BackendResults :
          CreateExtSaveData(m, icon_valid, r)
    \/ \E m \in MediaTypes, exists \in BOOLEAN, deleted \in BOOLEAN :
          DeleteExtSaveData(m, exists, deleted)
    \/ \E exists \in BOOLEAN, deleted \in BOOLEAN :
          DeleteSystemSaveData(exists, deleted)
    \/ \E created \in BOOLEAN : CreateSystemSaveData(created)

SpecMaintenance == Init /\ [][MaintenanceNext]_vars

\* The sizes SetSize is called with.
NewSizes == {0, 1}

\* The File commands that call the backend, with backends that succeed and
\* backends that fail.
FileNext ==
    \/ ArchiveInit(ConditionalIds)
    \/ OpenArchive("SaveData", "/", RESULT_SUCCESS, FALSE)
    \/ \E p \in FilePaths, size \in FileSizes :
          OpenFileFromArchive(FirstHandle, p, RESULT_SUCCESS, size)
    \/ \E s \in 1 .. MaxSessions, l \in Lengths, r \in OpResults :
          \/ File_Read(s, 0, l, r)
          \/ File_Write(s, 0, l, r)
    \/ \E s \in 1 .. MaxSessions : File_GetSize(s)
    \/ \E s \in 1 .. MaxSessions, size \in NewSizes, ok \in BOOLEAN :
          File_SetSize(s, size, ok)
    \/ \E s \in 1 .. MaxSessions, ok \in BOOLEAN : File_Close(s, ok)
    \/ \E s \in 1 .. MaxSessions : File_Flush(s)

SpecFile == Init /\ [][FileNext]_vars

\* The u32 values SetPriority is called with: the smallest and a large one
\* (2^31 - 1, the largest integer the model checker represents).
Priorities == {0, 2147483647}

\* The whole File command set on working backends: the priority and the
\* linked endpoints of the sessions.
FileStateNext ==
    \/ ArchiveInit(ConditionalIds)
    \/ OpenArchive("SaveData", "/", RESULT_SUCCESS, FALSE)
    \/ \E p \in FilePaths, size \in FileSizes :
          OpenFileFromArchive(FirstHandle, p, RESULT_SUCCESS, size)
    \/ \E s \in 1 .. MaxSessions, p \in Priorities : File_SetPriority(s, p)
    \/ \E s \in 1 .. MaxSessions : File_GetPriority(s)
    \/ \E s \in 1 .. MaxSessions : File_OpenLinkFile(s)
    \/ \E s \in 1 .. MaxSessions, l \in Lengths :
          \/ File_Read(s, 0, l, RESULT_SUCCESS)
          \/ File_Write(s, 0, l, RESULT_SUCCESS)
    \/ \E s \in 1 .. MaxSessions : File_GetSize(s)
    \/ \E s \in 1 .. MaxSessions : File_SetSize(s, 1, TRUE)
    \/ \E s \in 1 .. MaxSessions : File_Close(s, TRUE)
    \/ \E s \in 1 .. MaxSessions : File_Flush(s)

SpecFileState == Init /\ [][FileStateNext]_vars

\* The id codes and the factories RegisterArchiveType is called with on its
\* own: the factory RegisterArchiveTypes makes for the id code, and another.
DirectIds == {"SDMC", "SaveData", "NCCH"}

DirectFactories(id_code) == {FactoryOf(id_code), "ArchiveFactory_Other"}

\* The registry, filled by RegisterArchiveTypes and by single registrations.
RegistryNext ==
    \/ \E init_ok \in InitOutcomes : ArchiveInit(init_ok)
    \/ \E id_code \in DirectIds : \E factory \in DirectFactories(id_code) :
          RegisterArchiveTypeCall(factory, id_code)
    \/ UnregisterArchiveTypes
    \/ ArchiveShutdown

SpecRegistry == Init /\ [][RegistryNext]_vars

\* Every operation on archives, registered types and containers, with the
\* registry filled and reset in between.
ArchiveLevelNext ==
    \/ ArchiveInit(ConditionalIds)
    \/ UnregisterArchiveTypes
    \/ ArchiveShutdown
    \/ \E id_code \in {"SaveData", UnknownId} :
          OpenArchive(id_code, "/", RESULT_SUCCESS, FALSE)
    \/ CloseArchive(FirstHandle)
    \/ \E p \in FilePaths, r \in OpResults :
          \/ DeleteFileFromArchive(FirstHandle, p, r)
          \/ DeleteDirectoryFromArchive(FirstHandle, p, r)
          \/ DeleteDirectoryRecursivelyFromArchive(FirstHandle, p, r)
          \/ CreateFileInArchive(FirstHandle, p, r)
          \/ CreateDirectoryFromArchive(FirstHandle, p, r)
          \/ RenameFileBetweenArchives(FirstHandle, FirstHandle, r)
          \/ RenameDirectoryBetweenArchives(FirstHandle, FirstHandle, r)
          \/ OpenFileFromArchive(FirstHandle, p, r, 1)
          \/ OpenDirectoryFromArchive(FirstHandle, p, r, 1)
          \/ FormatArchive("SaveData", p, r)
          \/ GetArchiveFormatInfo("SaveData", p, r, 1)
    \/ GetFreeBytesInArchive(FirstHandle, 1)
    \/ \E m \in MediaTypes, icon_valid \in BOOLEAN :
          CreateExtSaveData(m, icon_valid, RESULT_SUCCESS)
    \/ \E m \in MediaTypes, exists \in BOOLEAN : DeleteExtSaveData(m, exists, TRUE)
    \/ \E exists \in BOOLEAN : DeleteSystemSaveData(exists, exists)
    \/ CreateSystemSaveData(TRUE)
    \/ RegisterSelfNCCH("app_loader")

SpecArchiveLevel == Init /\ [][ArchiveLevelNext]_vars

\* Two dispatch contexts in OpenArchive and CloseArchive at the same time.
ConcurrentNext ==
    \/ ArchiveInit(ConditionalIds)
    \/ \E c \in Contexts : OpenArchive_Open(c, "SaveData", "/")
    \/ \E c \in Contexts : OpenArchive_Probe(c)
    \/ \E c \in Contexts : OpenArchive_Emplace(c)
    \/ \E c \in Contexts : OpenArchive_Return(c)
    \/ \E c \in Contexts : CloseArchive_Erase(c)

SpecConcurrent == Init /\ [][ConcurrentNext]_vars

\* The entries a new directory has to enumerate, and the counts Read asks for.
DirectoryEntries == {2}

ReadCounts == {1, 2}

\* Directory sessions and the commands sent to them.
DirectoryNext ==
    \/ ArchiveInit(ConditionalIds)
    \/ OpenArchive("SaveData", "/", RESULT_SUCCESS, FALSE)
    \/ \E p \in FilePaths, left \in DirectoryEntries :
          OpenDirectoryFromArchive(FirstHandle, p, RESULT_SUCCESS, left)
    \/ \E d \in 1 .. MaxSessions, cmd \in DirectoryCommands, count \in ReadCounts :
          Directory_HandleSyncRequest(d, cmd, count)

SpecDirectory == Init /\ [][DirectoryNext]_vars

\* ------------------------------------------------------------- properties

Succeeded(call, op) == call.op = op /\ call.code = RESULT_SUCCESS

RenameOps == {"RenameFileBetweenArchives", "RenameDirectoryBetweenArchives"}

HandleScopedOps ==
    RenameOps \cup
    {"OpenFileFromArchive", "OpenDirectoryFromArchive", "DeleteFileFromArchive",
     "DeleteDirectoryFromArchive", "DeleteDirectoryRecursivelyFromArchive",
     "CreateFileInArchive", "CreateDirectoryFromArchive", "GetFreeBytesInArchive"}

\* The handles a handle scoped call was given.
UsedHandles(call) ==
    IF call.op \in RenameOps THEN {call.args[1], call.args[2]} ELSE {call.args[1]}

\* C1: a successful OpenArchive returns a handle that was no key of the
\* handle table before the call, adds exactly that key, binds it to a backend
\* object no other entry holds and leaves every other entry as it was.
C1_OpenReturnsFreshHandle ==
    [][Succeeded(last', "OpenArchive") =>
          /\ last'.val \notin DOMAIN handle_map
          /\ DOMAIN handle_map' = DOMAIN handle_map \cup {last'.val}
          /\ \A h \in DOMAIN handle_map : handle_map'[h] = handle_map[h]
          /\ handle_map'[last'.val].obj \notin LiveObjects]_vars

\* C1 witness: an OpenArchive succeeded whose allocation loop stepped over a
\* live handle, and two archives are live.
C1_Witness ==
    /\ Succeeded(last, "OpenArchive")
    /\ last.probed > 0
    /\ Cardinality(DOMAIN handle_map) = 2

\* C2: every key of the handle table and every handle OpenArchive returns is
\* strictly positive, wraparound of the counter included.
C2_HandlesPositive ==
    /\ \A h \in DOMAIN handle_map : h > 0
    /\ Succeeded(last, "OpenArchive") => last.val > 0

\* C3: a handle scoped operation given a handle that is no key of the table
\* returns ERR_INVALID_ARCHIVE_HANDLE, calls no backend and creates no
\* session; and a successfully closed handle is no key of the table any more.
C3_DeadHandleIsInvalid ==
    [][/\ (last'.op \in HandleScopedOps /\ ~(UsedHandles(last') \subseteq DOMAIN handle_map))
          => /\ last'.code = ERR_INVALID_ARCHIVE_HANDLE
             /\ last'.calls = << >>
             /\ files' = files /\ dirs' = dirs /\ handle_map' = handle_map
       /\ Succeeded(last', "CloseArchive")
          => last'.args[1] \notin DOMAIN handle_map']_vars

\* C3 witness: a rename from a live handle to the handle that was allocated
\* last and is closed again was answered ERR_INVALID_ARCHIVE_HANDLE.
C3_Witness ==
    /\ last.op = "RenameFileBetweenArchives"
    /\ last.code = ERR_INVALID_ARCHIVE_HANDLE
    /\ last.args[1] \in DOMAIN handle_map
    /\ last.args[2] \notin DOMAIN handle_map
    /\ last.args[2] >= 1
    /\ next_handle = (last.args[2] + 1) % HandleSpace
    /\ id_code_map # << >>

\* C4: CloseArchive of a live handle succeeds, removes that entry and no
\* other; CloseArchive of a handle that is no key returns
\* ERR_INVALID_ARCHIVE_HANDLE and changes nothing; the counter stays in both.
C4_CloseRemovesExactlyOne ==
    [][last'.op = "CloseArchive" =>
          /\ next_handle' = next_handle
          /\ IF last'.args[1] \in DOMAIN handle_map
             THEN /\ last'.code = RESULT_SUCCESS
                  /\ DOMAIN handle_map' = DOMAIN handle_map \ {last'.args[1]}
                  /\ \A h \in DOMAIN handle_map' : handle_map'[h] = handle_map[h]
             ELSE /\ last'.code = ERR_INVALID_ARCHIVE_HANDLE
                  /\ handle_map' = handle_map]_vars

\* C4 witness: a second close of handle 1 was refused while handle 2,
\* allocated after it, is still live.
C4_Witness ==
    /\ last.op = "CloseArchive"
    /\ last.code = ERR_INVALID_ARCHIVE_HANDLE
    /\ last.args[1] = 1
    /\ DOMAIN handle_map = {2}
    /\ next_handle = 3

\* C5: a rename between two live handles is delegated to the backend, and
\* answers what the backend answers, when the two handles are equal; it
\* answers UnimplementedFunction and calls no backend when they differ.
C5_RenameAcrossArchives ==
    (last.op \in RenameOps /\ UsedHandles(last) \subseteq DOMAIN handle_map) =>
        IF last.args[1] = last.args[2]
        THEN /\ Len(last.calls) = 1
             /\ last.calls[1][2] = handle_map[last.args[1]].obj
             /\ last.calls[1][3] = last.code
        ELSE /\ last.code = UnimplementedFunction
             /\ last.calls = << >>

\* C5 witness: a rename between two distinct live handles was refused.
C5_Witness ==
    /\ last.op = "RenameDirectoryBetweenArchives"
    /\ UsedHandles(last) \subseteq DOMAIN handle_map
    /\ last.args[1] # last.args[2]
    /\ last.code = UnimplementedFunction

\* C6, as claimed: a handle value is returned again only when it is no key
\* of the table and the counter has stepped over every other handle value
\* since it was returned.
C6_ReuseAfterFullCycle ==
    watch.seen = 2 => (~watch.busy /\ watch.age >= HandleSpace - 1)

\* C6, amended: the same, as long as ArchiveInit has not run between the two
\* returns.
C6_ReuseAfterFullCycleWithoutInit ==
    (watch.seen = 2 /\ ~watch.reinit) =>
        (~watch.busy /\ watch.age >= HandleSpace - 1)

\* C6 witness: a handle value was returned a second time with no ArchiveInit
\* in between.
C6_Witness == watch.seen = 2 /\ ~watch.reinit

\* C7: a failing OpenArchive allocates nothing: the table and the counter
\* stay; it answers ERROR_NOT_FOUND without calling a factory when the id
\* code is not registered, and the error of the factory's Open otherwise.
C7_FailedOpenChangesNothing ==
    [][(last'.op = "OpenArchive" /\ last'.code # RESULT_SUCCESS) =>
          /\ handle_map' = handle_map
          /\ next_handle' = next_handle
          /\ last'.val = NoVal
          /\ IF last'.args[1] \notin DOMAIN id_code_map
             THEN last'.code = ERROR_NOT_FOUND /\ last'.calls = << >>
             ELSE /\ Len(last'.calls) = 1
                  /\ last'.calls[1][2] = id_code_map[last'.args[1]]
                  /\ last'.code = last'.calls[1][3]
                  /\ last'.code \in BackendErrors]_vars

\* C7 witness: the factory's Open failed while an archive is live.
C7_Witness ==
    /\ last.op = "OpenArchive"
    /\ last.code \in BackendErrors
    /\ handle_map # << >>

SessionsKept ==
    /\ Len(files') >= Len(files) /\ Len(dirs') >= Len(dirs)
    /\ \A s \in 1 .. Len(files) : files'[s] = files[s]
    /\ \A d \in 1 .. Len(dirs) : dirs'[d] = dirs[d]

\* C8: OpenFileFromArchive and OpenDirectoryFromArchive leave the handle
\* table and the counter as they were; a successful one adds one session and
\* a failed one adds none.
C8_OpenSessionKeepsTable ==
    [][last'.op \in {"OpenFileFromArchive", "OpenDirectoryFromArchive"} =>
          /\ handle_map' = handle_map
          /\ next_handle' = next_handle
          /\ SessionsKept
          /\ Len(files') + Len(dirs') =
                Len(files) + Len(dirs) +
                (IF last'.code = RESULT_SUCCESS THEN 1 ELSE 0)]_vars

\* C8 witness: a directory was opened from a live archive that a file had
\* been opened from before.
C8_Witness ==
    /\ Succeeded(last, "OpenDirectoryFromArchive")
    /\ Len(files) = 1
    /\ last.args[1] \in DOMAIN handle_map
    /\ files[1].from = last.args[1]

\* C9: CloseArchive destroys no File session and changes none: each session
\* keeps its backend file, and Read, Write and GetSize on it answer after the
\* close what they would have answered before it.
C9_CloseKeepsFileSessions ==
    [][last'.op = "CloseArchive" =>
          /\ Len(files') = Len(files)
          /\ \A s \in 1 .. Len(files) :
                /\ files'[s].backend = files[s].backend
                /\ GetSizeReply(files'[s]) = GetSizeReply(files[s])
                /\ \A o \in Offsets, l \in Lengths, r \in OpResults :
                      /\ ReadReply(files'[s], o, l, r) = ReadReply(files[s], o, l, r)
                      /\ WriteReply(files'[s], o, l, r) = WriteReply(files[s], o, l, r)]_vars

\* C9 witness: two File sessions were opened from one handle, the handle is
\* closed, and a Write on one of the sessions succeeded.
C9_Witness ==
    /\ Succeeded(last, "File::Write")
    /\ Len(files) = 2
    /\ files[1].from = files[2].from
    /\ files[1].from \notin DOMAIN handle_map
    /\ handle_map = << >>

\* C10: FormatArchive and GetArchiveFormatInfo answer ERROR_NOT_FOUND, and
\* call no factory, for an id code that is not registered.
C10_UnknownIdIsNotFound ==
    (last.op \in {"FormatArchive", "GetArchiveFormatInfo"}
       /\ last.args[1] \notin DOMAIN id_code_map) =>
        (last.code = ERROR_NOT_FOUND /\ last.calls = << >>)

\* C11: CreateExtSaveData called with an invalid icon source region answers
\* with an error and has made no call on the factory, neither Format nor
\* WriteIcon.
C11_InvalidIconFailsBeforeMutation ==
    (last.op = "CreateExtSaveData" /\ ~last.args[2]) =>
        /\ last.code # RESULT_SUCCESS
        /\ last.calls = << >>

\* The File commands that call a backend operation which can fail.
FailingFileCommands == {"File::Read", "File::Write", "File::SetSize", "File::Close"}

\* A backend call of the record answered with a failure.
BackendFailed(call) ==
    \E i \in 1 .. Len(call.calls) : call.calls[i][3] \notin {RESULT_SUCCESS, "true"}

\* C12: whenever the backend operation of Read, Write, SetSize or Close
\* reports a failure, the command's result word is a failure, and it is the
\* backend's result code where the backend answers with one.
C12_BackendFailureIsForwarded ==
    (last.op \in FailingFileCommands /\ BackendFailed(last)) =>
        /\ last.code # RESULT_SUCCESS
        /\ \A i \in 1 .. Len(last.calls) :
              last.calls[i][3] \in BackendErrors => last.code = last.calls[i][3]

\* The File commands other than SetPriority and GetPriority.
OtherFileCommands ==
    {"File::Read", "File::Write", "File::GetSize", "File::SetSize",
     "File::Flush", "File::Close", "File::OpenLinkFile"}

\* The stored priority of every session but s stays what it is in the step.
PrioritiesKeptBut(s) ==
    /\ Len(files') = Len(files)
    /\ \A t \in 1 .. Len(files) : t # s => files'[t].priority = files[t].priority

\* C13: a new File session has priority 0; SetPriority(p) stores p and
\* GetPriority answers with the stored value, both with success and without
\* a backend call; no other File command changes the stored priority of any
\* session. (So GetPriority answers 0 before any SetPriority and else the p
\* of the most recent one.)
C13_PriorityIsBookkeeping ==
    [][/\ Succeeded(last', "OpenFileFromArchive") =>
              /\ files'[last'.val].priority = 0
              /\ \A t \in 1 .. Len(files) : files'[t].priority = files[t].priority
       /\ last'.op = "File::SetPriority" =>
              /\ last'.code = RESULT_SUCCESS /\ last'.calls = << >>
              /\ files'[last'.args[1]].priority = last'.args[2]
              /\ PrioritiesKeptBut(last'.args[1])
       /\ last'.op = "File::GetPriority" =>
              /\ last'.code = RESULT_SUCCESS /\ last'.calls = << >>
              /\ last'.val = files[last'.args[1]].priority
              /\ files' = files
       /\ last'.op \in OtherFileCommands => PrioritiesKeptBut(0)
      ]_vars

\* A session answers GetPriority with the large value after its backend file
\* was closed: SetPriority stored it, and Close did not touch it.
C13_Witness ==
    /\ Succeeded(last, "File::GetPriority")
    /\ last.val = 2147483647
    /\ ~files[last.args[1]].backend.open

UnconditionalIds == KnownIds \ ConditionalIds

\* C15: no step replaces the factory bound to an id code; RegisterArchiveType
\* for a registered id code fails the assertion and leaves the registry as it
\* is, for an unregistered one it adds exactly the binding; RegisterArchiveTypes
\* on a registry that holds one of its id codes fails the assertion as well.
C15_FactoryNeverReplaced ==
    [][/\ \A id_code \in DOMAIN id_code_map \cap DOMAIN id_code_map' :
              id_code_map'[id_code] = id_code_map[id_code]
       /\ last'.op = "RegisterArchiveType" =>
              IF last'.args[2] \in DOMAIN id_code_map
              THEN fatal' /\ last'.code = "ASSERT" /\ id_code_map' = id_code_map
              ELSE /\ ~fatal' /\ last'.code = RESULT_SUCCESS
                   /\ id_code_map' = id_code_map @@ (last'.args[2] :> last'.args[1])
       /\ (last'.op = "ArchiveInit" /\ UnconditionalIds \cap DOMAIN id_code_map # {})
              => fatal' /\ last'.code = "ASSERT"
      ]_vars

\* A second registration, with another factory, has failed the assertion and
\* the id code is still bound to the first factory.
C15_Witness ==
    /\ fatal
    /\ last.op = "RegisterArchiveType"
    /\ last.args[2] \in DOMAIN id_code_map
    /\ id_code_map[last.args[2]] # last.args[1]

\* The operations the registry has to stay unchanged under.
ArchiveLevelOps ==
    HandleScopedOps \cup
    {"OpenArchive", "CloseArchive", "FormatArchive", "GetArchiveFormatInfo",
     "CreateExtSaveData", "DeleteExtSaveData", "DeleteSystemSaveData",
     "CreateSystemSaveData", "RegisterSelfNCCH"}

ResetOps == {"UnregisterArchiveTypes", "ArchiveShutdown"}

\* C16: an archive-level operation leaves the registry (the registered id
\* codes and the factory of each) as it is; UnregisterArchiveTypes and
\* ArchiveShutdown empty it; and nothing but these two and the registration
\* itself changes it.
C16_RegistryReadOnly ==
    [][/\ last'.op \in ArchiveLevelOps => id_code_map' = id_code_map
       /\ last'.op \in ResetOps => id_code_map' = << >>
       /\ id_code_map' # id_code_map =>
              last'.op \in ResetOps \cup {"ArchiveInit", "RegisterArchiveType"}
      ]_vars

\* RegisterSelfNCCH has called the registered SelfNCCH factory, and every
\* archive type is still registered.
C16_Witness ==
    /\ Succeeded(last, "RegisterSelfNCCH")
    /\ last.calls # << >>
    /\ DOMAIN id_code_map = KnownIds

\* The contexts whose OpenArchive has returned a handle not closed since.
Returned == {c \in Contexts : contexts[c].pc = "idle" /\ contexts[c].ret # NoVal}

\* C17: however the statements of concurrent OpenArchive and CloseArchive
\* calls interleave, the handle an OpenArchive returned maps to the backend
\* that call opened (so no opened backend is lost), and no two calls have
\* returned the same handle.
C17_ConcurrentOpensAreSerialized ==
    /\ \A c \in Returned :
          /\ contexts[c].ret \in DOMAIN handle_map
          /\ handle_map[contexts[c].ret].obj = contexts[c].res.obj
    /\ \A c \in Returned, d \in Returned :
          c # d => contexts[c].ret # contexts[d].ret

\* The File commands that call the backend.
BackendFileCommands ==
    {"File::Read", "File::Write", "File::GetSize", "File::SetSize",
     "File::Flush", "File::Close"}

\* C18: once Close has been answered the session holds no backend file
\* object (no object lives at address 0), and a command sent to a session
\* whose backend file was closed makes no backend call.
C18_CloseDestroysSession ==
    [][/\ last'.op = "File::Close" =>
              files'[last'.args[1]].backend.fobj = 0
       /\ (last'.op \in BackendFileCommands
              /\ ~files[last'.args[1]].backend.open) => last'.calls = << >>
      ]_vars

\* C19: a Directory session sent a command that is neither Read nor Close
\* answers with UnimplementedFunction in its result word, calls no backend
\* operation, and leaves every session, with the backend's enumeration
\* position, as it is.
C19_UnknownDirectoryCommand ==
    [][(last'.op = "Directory::HandleSyncRequest"
           /\ last'.args[2] \notin {"Read", "Close"}) =>
          /\ last'.code = UnimplementedFunction
          /\ last'.calls = << >>
          /\ dirs' = dirs
          /\ files' = files
      ]_vars

\* An unknown command was answered by a session in the middle of its
\* enumeration: some entries read, some left.
C19_Witness ==
    /\ last.op = "Directory::HandleSyncRequest"
    /\ last.args[2] = "Control"
    /\ last.code = UnimplementedFunction
    /\ dirs[last.args[1]].backend.left = 1
    /\ dirs[last.args[1]].backend.open

\* The calls of the two delete operations the claim is about: DeleteExtSaveData
\* for a supported media type, and DeleteSystemSaveData.
DeletesContainer(call) ==
    \/ call.op = "DeleteExtSaveData" /\ call.args[1] \in {"NAND", "SDMC"}
    \/ call.op = "DeleteSystemSaveData"

\* C20: deleting a container whose path is absent answers with success, and
\* a delete answers with an error only where the path is present and the
\* removal failed.
C20_DeletingAbsentSucceeds ==
    DeletesContainer(last) =>
        /\ ~last.args[2] => last.code = RESULT_SUCCESS
        /\ last.code # RESULT_SUCCESS =>
              /\ last.args[2]
              /\ BackendFailed(last)

\* The backend objects the File sessions own, and those the Directory
\* sessions own.
FileObjects == {files[s].backend.fobj : s \in 1 .. Len(files)}

DirectoryObjects == {dirs[d].backend.dobj : d \in 1 .. Len(dirs)}

\* No backend object is owned by two sessions.
NoSharedBackend ==
    /\ \A s \in 1 .. Len(files), t \in 1 .. Len(files) :
          s # t => files[s].backend.fobj # files[t].backend.fobj
    /\ \A d \in 1 .. Len(dirs), e \in 1 .. Len(dirs) :
          d # e => dirs[d].backend.dobj # dirs[e].backend.dobj

\* C21: in every state no backend file or directory object is owned by two
\* sessions; a successful OpenFileFromArchive / OpenDirectoryFromArchive has
\* made one backend open call and added one session, which owns an object no
\* session owned before; a failed one has added no session.
C21_BackendObjectsNotShared ==
    /\ []NoSharedBackend
    /\ [][/\ Succeeded(last', "OpenFileFromArchive") =>
                 /\ Len(files') = Len(files) + 1 /\ dirs' = dirs
                 /\ files'[Len(files')].backend.fobj \notin FileObjects
                 /\ Len(last'.calls) = 1 /\ last'.calls[1][1] = "OpenFile"
          /\ Succeeded(last', "OpenDirectoryFromArchive") =>
                 /\ Len(dirs') = Len(dirs) + 1 /\ files' = files
                 /\ dirs'[Len(dirs')].backend.dobj \notin DirectoryObjects
                 /\ Len(last'.calls) = 1 /\ last'.calls[1][1] = "OpenDirectory"
          /\ (last'.op \in {"OpenFileFromArchive", "OpenDirectoryFromArchive"}
                 /\ last'.code # RESULT_SUCCESS) =>
                 files' = files /\ dirs' = dirs
         ]_vars

\* The same path was opened twice on the same archive handle, as files and
\* as directories: two sessions each time.
C21_Witness ==
    /\ last.op \in {"OpenFileFromArchive", "OpenDirectoryFromArchive"}
    /\ last.code = RESULT_SUCCESS
    /\ \/ /\ Len(files) = 2 /\ files[1].path = files[2].path
          /\ files[1].from = files[2].from
       \/ /\ Len(dirs) = 2 /\ dirs[1].path = dirs[2].path

\* The positions among the calls of the record where fn was called.
CallsOf(call, fn) == {i \in 1 .. Len(call.calls) : call.calls[i][1] = fn}

\* C22: File::Read calls the backend Read exactly once, with the offset and
\* the length of the request whatever the size of the file; where the backend
\* succeeds the reply is success with the backend's byte count and exactly
\* that many bytes are written to the caller's buffer; where it fails the
\* reply is the backend's code with a byte count of 0 and nothing is written.
C22_ReadNeverClamps ==
    last.op = "File::Read" =>
        /\ Cardinality(CallsOf(last, "Read")) = 1
        /\ \A i \in CallsOf(last, "Read") :
              /\ last.calls[i][4] = last.args[2]
              /\ last.calls[i][5] = last.args[3]
              /\ IF last.calls[i][3] = RESULT_SUCCESS
                 THEN /\ last.code = RESULT_SUCCESS
                      /\ last.val = BackendRead(files[last.args[1]].backend,
                                                last.args[2], last.args[3])
                      /\ Cardinality(CallsOf(last, "buffer.Write")) = 1
                      /\ \A w \in CallsOf(last, "buffer.Write") :
                            last.calls[w][5] = last.val
                 ELSE /\ last.code = last.calls[i][3]
                      /\ last.val = 0
                      /\ CallsOf(last, "buffer.Write") = {}

\* A Read that reaches past the end of the file was passed on as requested
\* and answered with fewer bytes than it asked for.
C22_Witness ==
    /\ Succeeded(last, "File::Read")
    /\ last.args[2] + last.args[3] > BackendGetSize(files[last.args[1]].backend)
    /\ last.val < last.args[3]

\* Two handles bound to entries opened with the same id code and path.
SameTypeAndPath(h, g) ==
    /\ handle_map[h].id_code = handle_map[g].id_code
    /\ handle_map[h].path = handle_map[g].path

====
